---- MODULE Spec2Model ----
(***************************************************************************)
(* Model of static/js/camera.js (SecureVote camera script).                *)
(*                                                                         *)
(* The script is a set of event handlers run by a single-threaded event    *)
(* loop: every synchronous stretch of code between two awaits is one       *)
(* atomic action.  The host (browser, camera, backend) settles the awaited *)
(* promises; its answers are drawn nondeterministically.                   *)
(*                                                                         *)
(* Status texts are written in ASCII: the source's pictographs are         *)
(* rendered  "[x] " (cross mark), "[ok] " (check mark), "[!] " (warning).  *)
(***************************************************************************)
EXTENDS Integers, Sequences, FiniteSets, TLC

\* Number of invocations of startCamera and of the submit flows that the user
\* triggers during one page session.
MaxCalls == 3

\* Delays of the two redirect timers, in milliseconds.
RegisterDelay == 1200
LoginDelay == 1000

VARIABLES
  hasVideo,   \* document.getElementById("video") is an element
  hasCanvas,  \* document.getElementById("canvas") is an element
  hasStatus,  \* document.getElementById("status") is an element
  apiAvail,   \* navigator.mediaDevices.getUserMedia exists
  streamRef,  \* the module-level stream slot; 0 is null, n > 0 the n-th stream
  tracks,     \* tracks[n]: readyState of the video track of the n-th stream
  srcObject,  \* video.srcObject; 0 is null
  dims,       \* <<video.videoWidth, video.videoHeight>>
  canvas,     \* <<canvas.width, canvas.height>>
  status,     \* status.textContent
  calls,      \* the invocations suspended at an await, in call order
  ncalls,     \* the number of invocations made so far
  last,       \* the invocation called or completed in the latest step, with its effects
  timers,     \* the setTimeout callbacks scheduled so far, pending or fired
  location,   \* window.location.href
  uncaught    \* an exception escaped a handler

vars == <<hasVideo, hasCanvas, hasStatus, apiAvail, streamRef, tracks, srcObject,
          dims, canvas, status, calls, ncalls, last, timers,
          location, uncaught>>

dom == <<hasVideo, hasCanvas, hasStatus, apiAvail>>

----------------------------------------------------------------------------
(* Host values *)

\* Frame sizes the camera delivers.
Resolutions == {<<640, 480>>}

\* error.message of a rejected getUserMedia / play promise.
GumErrors == {"Permission denied"}
PlayErrors == {"play() request was interrupted"}

\* An optional JSON field: <<>> when absent, <<v>> when present.
OkField == {<<>>, <<TRUE>>, <<FALSE>>}
ErrorField == {<<>>, <<"">>, <<"Face not recognized.">>}

\* What response.json() can resolve to: the JSON value null, or an object.
\* An object without `ok` is taken without `error` too.
Bodies == {[null |-> TRUE, ok |-> <<>>, error |-> <<>>]}
          \cup {b \in [null : {FALSE}, ok : OkField, error : ErrorField] :
                  b.ok = <<>> => b.error = <<>>}

\* JavaScript truthiness of an optional boolean field and of an optional
\* string field (undefined, false and "" are falsy).
TruthyOk(f) == Len(f) = 1 /\ f[1]
TruthyError(f) == Len(f) = 1 /\ f[1] # ""

Flows == {"register", "vote", "login"}

Endpoint(flow) ==
  CASE flow = "register" -> "/api/register-face"
    [] flow = "vote"     -> "/api/vote-face-verify"
    [] flow = "login"    -> "/api/login-face-verify"

InProgressMsg(flow) ==
  CASE flow = "register" -> "Uploading face for registration..."
    [] flow = "vote"     -> "Verifying face..."
    [] flow = "login"    -> "Verifying face for login..."

Fallback(flow) ==
  CASE flow = "register" -> "Registration failed."
    [] flow = "vote"     -> "Verification failed."
    [] flow = "login"    -> "Login failed."

SuccessMsg(flow) ==
  CASE flow = "register" -> "[ok] Registration successful! Redirecting..."
    [] flow = "vote"     -> "[ok] Face verified successfully!"
    [] flow = "login"    -> "[ok] Login successful! Redirecting..."

ServerErrorMsg(flow) ==
  CASE flow = "register" -> "[x] Server error during registration."
    [] flow = "vote"     -> "[x] Server error during verification."
    [] flow = "login"    -> "[x] Server error during login."

WarnMsg == "[!] Please start camera first."
UnsupportedMsg == "Camera not supported in this browser."
StartedMsg == "[ok] Camera started successfully."
CameraErrorMsg(msg) == "[x] Camera error: " \o msg

\* Every flow redirecting, vote-verify as login does.
RedirectDelays_All(flow) ==
  CASE flow = "register" -> {RegisterDelay}
    [] flow = "vote"     -> {LoginDelay}
    [] flow = "login"    -> {LoginDelay}

\* The timers a successful flow schedules: none for vote-verify.
RedirectDelays(flow) ==
  CASE flow = "register" -> {RegisterDelay}
    [] flow = "vote"     -> {}
    [] flow = "login"    -> {LoginDelay}

----------------------------------------------------------------------------
(* Effects, as each invocation's own log *)

Eff(e, a) == [e |-> e, a |-> a]

\* Whether a log holds effect e, and how many times.
Did(log, e) == \E k \in DOMAIN log : log[k].e = e
Count(log, e) == Cardinality({k \in DOMAIN log : log[k].e = e})

\* `if (status) status.textContent = text`
SetStatus(text) == IF hasStatus THEN text ELSE status
LogStatus(text) == IF hasStatus THEN <<Eff("status", text)>> ELSE <<>>

\* The value captureImageBase64 returns: <<>> is null, <<f>> a data URI of frame f.
NoImage == <<>>

\* A new invocation: `seen` is the video size a submit flow found, `stream` the stream
\* the invocation acquired, `out` how it ended, `body` the parsed response body.
Call(kind) ==
  [kind |-> kind, pc |-> "done", out |-> "", log |-> <<>>, image |-> NoImage,
   seen |-> IF kind = "start" THEN <<0, 0>> ELSE dims,
   respOk |-> FALSE, body |-> <<>>, stream |-> 0]

\* No invocation was called or completed in the latest step.
NoCall ==
  [kind |-> "", pc |-> "done", out |-> "", log |-> <<>>, image |-> NoImage,
   seen |-> <<0, 0>>, respOk |-> FALSE, body |-> <<>>, stream |-> 0]

\* The i-th suspended invocation exists.
Active(i) == i \in 1..Len(calls)

\* A sequence without its i-th element.
Without(seq, i) == SubSeq(seq, 1, i - 1) \o SubSeq(seq, i + 1, Len(seq))

\* A call that completes without awaiting anything.
CompleteAtOnce(c) ==
  /\ calls' = calls
  /\ ncalls' = ncalls + 1
  /\ last' = c

\* A call that suspends at its first await.
Suspend(c) ==
  /\ calls' = Append(calls, c)
  /\ ncalls' = ncalls + 1
  /\ last' = c

\* The i-th suspended invocation completes as record c.
Complete(i, c) ==
  /\ calls' = Without(calls, i)
  /\ ncalls' = ncalls
  /\ last' = c

\* A suspended invocation moves on to its next await as record c.
Resume(i, c) ==
  /\ calls' = [calls EXCEPT ![i] = c]
  /\ ncalls' = ncalls
  /\ last' = NoCall

Loaded == location = "page"

----------------------------------------------------------------------------
Init ==
  /\ hasVideo \in BOOLEAN
  /\ hasCanvas \in BOOLEAN
  /\ hasStatus \in BOOLEAN
  /\ apiAvail \in BOOLEAN
  /\ streamRef = 0
  /\ tracks = <<>>
  /\ srcObject = 0
  /\ dims = <<0, 0>>
  /\ canvas = <<300, 150>>
  /\ status = ""
  /\ calls = <<>>
  /\ ncalls = 0
  /\ last = NoCall
  /\ timers = <<>>
  /\ location = "page"
  /\ uncaught = FALSE

----------------------------------------------------------------------------
(* startCamera *)

\* startCamera without its test of the video element (lines 12-15).
startCamera_NoVideoTest ==
  /\ Loaded
  /\ ncalls < MaxCalls
  /\ LET c == Call("start") IN
     IF ~apiAvail THEN
       /\ CompleteAtOnce([c EXCEPT !.out = "unsupported", !.log = LogStatus(UnsupportedMsg)])
       /\ status' = SetStatus(UnsupportedMsg)
     ELSE
       /\ Suspend([c EXCEPT !.pc = "awaitGUM", !.log = <<Eff("getUserMedia", "")>>])
       /\ status' = status
  /\ UNCHANGED <<dom, streamRef, tracks, srcObject, dims, canvas, timers, location, uncaught>>

\* The code of startCamera up to its first await: lines 9-23.
startCamera ==
  /\ Loaded
  /\ ncalls < MaxCalls
  /\ LET c == Call("start") IN
     IF ~hasVideo THEN
       /\ CompleteAtOnce([c EXCEPT !.out = "novideo",
                                  !.log = <<Eff("console.error", "Video element not found.")>>])
       /\ status' = status
     ELSE IF ~apiAvail THEN
       /\ CompleteAtOnce([c EXCEPT !.out = "unsupported", !.log = LogStatus(UnsupportedMsg)])
       /\ status' = SetStatus(UnsupportedMsg)
     ELSE
       /\ Suspend([c EXCEPT !.pc = "awaitGUM", !.log = <<Eff("getUserMedia", "")>>])
       /\ status' = status
  /\ UNCHANGED <<dom, streamRef, tracks, srcObject, dims, canvas, timers, location, uncaught>>

\* A startCamera that releases the stream it replaces in the slot.
GumResolve_StopsPrevious(i) ==
  /\ Loaded
  /\ Active(i)
  /\ calls[i].pc = "awaitGUM"
  /\ LET s == Len(tracks) + 1 IN
     /\ tracks' = Append([k \in DOMAIN tracks |-> "ended"], "live")
     /\ streamRef' = s
     /\ srcObject' = s
     /\ dims' = <<0, 0>>
     /\ Resume(i, [calls[i] EXCEPT !.pc = "awaitPlay", !.stream = s,
                                    !.log = @ \o <<Eff("streamRef", ""), Eff("srcObject", ""),
                                                    Eff("play", "")>>])
  /\ UNCHANGED <<dom, canvas, status, timers, location, uncaught>>

\* getUserMedia resolves with a new stream: lines 23 (assignment), 28, 29.
GumResolve(i) ==
  /\ Loaded
  /\ Active(i)
  /\ calls[i].pc = "awaitGUM"
  /\ LET s == Len(tracks) + 1 IN
     /\ tracks' = Append(tracks, "live")
     /\ streamRef' = s
     /\ srcObject' = s
     /\ dims' = <<0, 0>>
     /\ Resume(i, [calls[i] EXCEPT !.pc = "awaitPlay", !.stream = s,
                                    !.log = @ \o <<Eff("streamRef", ""), Eff("srcObject", ""),
                                                    Eff("play", "")>>])
  /\ UNCHANGED <<dom, canvas, status, timers, location, uncaught>>

\* The catch block of startCamera, lines 32-35.
StartCatch(i, msg, out) ==
  /\ Complete(i, [calls[i] EXCEPT !.pc = "done", !.out = out,
                                   !.log = @ \o <<Eff("console.error", msg)>>
                                             \o LogStatus(CameraErrorMsg(msg))])
  /\ status' = SetStatus(CameraErrorMsg(msg))

GumReject(i) ==
  /\ Loaded
  /\ Active(i)
  /\ calls[i].pc = "awaitGUM"
  /\ \E msg \in GumErrors : StartCatch(i, msg, "gumfail")
  /\ UNCHANGED <<dom, streamRef, tracks, srcObject, dims, canvas, timers, location, uncaught>>

PlayResolve(i) ==
  /\ Loaded
  /\ Active(i)
  /\ calls[i].pc = "awaitPlay"
  /\ Complete(i, [calls[i] EXCEPT !.pc = "done", !.out = "started",
                                   !.log = @ \o LogStatus(StartedMsg)])
  /\ status' = SetStatus(StartedMsg)
  /\ UNCHANGED <<dom, streamRef, tracks, srcObject, dims, canvas, timers, location, uncaught>>

PlayReject(i) ==
  /\ Loaded
  /\ Active(i)
  /\ calls[i].pc = "awaitPlay"
  /\ \E msg \in PlayErrors : StartCatch(i, msg, "playfail")
  /\ UNCHANGED <<dom, streamRef, tracks, srcObject, dims, canvas, timers, location, uncaught>>

\* The camera delivers a frame to the video element showing a live stream:
\* videoWidth and videoHeight become the frame's size.  Assigning srcObject
\* (GumResolve) resets them to 0; nothing the script does afterwards resets
\* them, and a video element keeps its last frame and size when the tracks of
\* its stream end.
DeliverFrame ==
  /\ Loaded
  /\ srcObject # 0
  /\ tracks[srcObject] = "live"
  /\ dims = <<0, 0>>
  /\ dims' \in Resolutions
  /\ UNCHANGED <<dom, streamRef, tracks, srcObject, canvas, status, calls, ncalls, timers,
                 location, uncaught>>
  /\ last' = NoCall

----------------------------------------------------------------------------
(* stopCamera *)

\* MediaStreamTrack.stop(): a live track ends; an ended track stays ended.
TrackStop(readyState) == "ended"

\* stopCamera without its `if (streamRef)` guard: null.getTracks() throws.
stopCamera_NoGuard ==
  IF streamRef # 0
  THEN [tracks |-> [tracks EXCEPT ![streamRef] = TrackStop(@)], threw |-> FALSE]
  ELSE [tracks |-> tracks, threw |-> TRUE]

\* The body of stopCamera: the tracks after the call, and whether it threw.
\* getUserMedia({video, audio: false}) streams carry exactly one track.
stopCamera ==
  IF streamRef # 0
  THEN [tracks |-> [tracks EXCEPT ![streamRef] = TrackStop(@)], threw |-> FALSE]
  ELSE [tracks |-> tracks, threw |-> FALSE]

\* A stopCamera that also cancels the acquisitions still pending.
CallStopCamera_CancelsPending ==
  /\ Loaded
  /\ tracks' = stopCamera.tracks
  /\ uncaught' = (uncaught \/ stopCamera.threw)
  /\ last' = [NoCall EXCEPT !.kind = "stopCamera",
                             !.out = IF last.kind = "stopCamera" THEN "again" ELSE "first",
                             !.log = <<Eff("stopCamera", "")>>]
  /\ LET Kept(c) == c.pc # "awaitGUM" IN calls' = SelectSeq(calls, Kept)
  /\ UNCHANGED <<dom, streamRef, srcObject, dims, canvas, status, ncalls, timers, location>>

\* A stopCamera that also clears the slot (`streamRef = null`).
CallStopCamera_ClearsSlot ==
  /\ Loaded
  /\ tracks' = stopCamera.tracks
  /\ streamRef' = 0
  /\ uncaught' = (uncaught \/ stopCamera.threw)
  /\ last' = [NoCall EXCEPT !.kind = "stopCamera",
                             !.out = IF last.kind = "stopCamera" THEN "again" ELSE "first",
                             !.log = <<Eff("stopCamera", "")>>]
  /\ UNCHANGED <<dom, srcObject, dims, canvas, status, calls, ncalls, timers, location>>

\* stopCamera called directly by the page (a button's onclick).
CallStopCamera ==
  /\ Loaded
  /\ tracks' = stopCamera.tracks
  /\ uncaught' = (uncaught \/ stopCamera.threw)
  /\ last' = [NoCall EXCEPT !.kind = "stopCamera",
                             !.out = IF last.kind = "stopCamera" THEN "again" ELSE "first",
                             !.log = <<Eff("stopCamera", "")>>]
  /\ UNCHANGED <<dom, streamRef, srcObject, dims, canvas, status, calls, ncalls, timers,
                 location>>

----------------------------------------------------------------------------
(* captureImageBase64 *)

\* captureImageBase64 without the test of the video size (line 55).
captureImageBase64_NoSizeTest ==
  IF ~hasVideo \/ ~hasCanvas THEN NoImage
  ELSE <<[w |-> dims[1], h |-> dims[2]]>>

\* The returned data URI, as the frame it encodes; NoImage is null.
captureImageBase64 ==
  IF ~hasVideo \/ ~hasCanvas THEN NoImage
  ELSE IF dims[1] = 0 \/ dims[2] = 0 THEN NoImage
  ELSE <<[w |-> dims[1], h |-> dims[2]]>>

\* canvas.width / canvas.height after the call (lines 57-58).
CanvasAfterCapture ==
  IF captureImageBase64 = NoImage THEN canvas ELSE <<dims[1], dims[2]>>

----------------------------------------------------------------------------
(* The three submit flows.  captureAndRegister, captureAndVerifyVote and   *)
(* captureAndLogin are the same code up to the endpoint, the status texts  *)
(* and the redirect; Submit(flow) is that code.                            *)

\* A submit flow behind an in-flight lock: it cannot be triggered while
\* another flow awaits its response.
Submit_Locked(flow) ==
  /\ Loaded
  /\ ncalls < MaxCalls
  /\ \A i \in DOMAIN calls : calls[i].kind \notin Flows
  /\ LET image == captureImageBase64
         c == [Call(flow) EXCEPT !.image = image]
     IN
     IF image = NoImage THEN
       /\ CompleteAtOnce([c EXCEPT !.out = "precond", !.log = LogStatus(WarnMsg)])
       /\ status' = SetStatus(WarnMsg)
     ELSE
       /\ Suspend([c EXCEPT !.pc = "awaitFetch",
                           !.log = LogStatus(InProgressMsg(flow))
                                   \o <<Eff("fetch", Endpoint(flow))>>])
       /\ status' = SetStatus(InProgressMsg(flow))
  /\ canvas' = CanvasAfterCapture
  /\ UNCHANGED <<dom, streamRef, tracks, srcObject, dims, timers, location, uncaught>>

\* A submit flow that sends its request without the in-progress status.
Submit_NoInProgress(flow) ==
  /\ Loaded
  /\ ncalls < MaxCalls
  /\ LET image == captureImageBase64
         c == [Call(flow) EXCEPT !.image = image]
     IN
     IF image = NoImage THEN
       /\ CompleteAtOnce([c EXCEPT !.out = "precond", !.log = LogStatus(WarnMsg)])
       /\ status' = SetStatus(WarnMsg)
     ELSE
       /\ Suspend([c EXCEPT !.pc = "awaitFetch", !.log = <<Eff("fetch", Endpoint(flow))>>])
       /\ status' = status
  /\ canvas' = CanvasAfterCapture
  /\ UNCHANGED <<dom, streamRef, tracks, srcObject, dims, timers, location, uncaught>>

\* The code of a submit flow up to its first await: lines 70-87.
Submit(flow) ==
  /\ Loaded
  /\ ncalls < MaxCalls
  /\ LET image == captureImageBase64
         c == [Call(flow) EXCEPT !.image = image]
     IN
     IF image = NoImage THEN
       /\ CompleteAtOnce([c EXCEPT !.out = "precond", !.log = LogStatus(WarnMsg)])
       /\ status' = SetStatus(WarnMsg)
     ELSE
       /\ Suspend([c EXCEPT !.pc = "awaitFetch",
                           !.log = LogStatus(InProgressMsg(flow))
                                   \o <<Eff("fetch", Endpoint(flow))>>])
       /\ status' = SetStatus(InProgressMsg(flow))
  /\ canvas' = CanvasAfterCapture
  /\ UNCHANGED <<dom, streamRef, tracks, srcObject, dims, timers, location, uncaught>>

captureAndRegister == Submit("register")
captureAndVerifyVote == Submit("vote")
captureAndLogin == Submit("login")

\* fetch resolves with a response of some HTTP status; response.json() is called.
FetchResolve(i) ==
  /\ Loaded
  /\ Active(i)
  /\ calls[i].pc = "awaitFetch"
  /\ \E httpOk \in BOOLEAN :
       Resume(i, [calls[i] EXCEPT !.pc = "awaitJson", !.respOk = httpOk,
                                  !.log = @ \o <<Eff("json", "")>>])
  /\ UNCHANGED <<dom, streamRef, tracks, srcObject, dims, canvas, status, timers,
                 location, uncaught>>

\* A catch block that also releases the camera.
SubmitCatch_Stops(i, out) ==
  /\ Complete(i, [calls[i] EXCEPT !.pc = "done", !.out = out,
                                   !.log = @ \o <<Eff("console.error", "")>>
                                             \o LogStatus(ServerErrorMsg(calls[i].kind))
                                             \o <<Eff("stopCamera", "")>>])
  /\ status' = SetStatus(ServerErrorMsg(calls[i].kind))
  /\ tracks' = stopCamera.tracks
  /\ timers' = timers

\* A catch block that sends the request once more before giving up.
SubmitCatch_Retries(i, out) ==
  IF Count(calls[i].log, "fetch") < 2 THEN
    /\ Resume(i, [calls[i] EXCEPT !.pc = "awaitFetch",
                                   !.log = @ \o <<Eff("fetch", Endpoint(calls[i].kind))>>])
    /\ status' = status
    /\ UNCHANGED <<tracks, timers>>
  ELSE
    /\ Complete(i, [calls[i] EXCEPT !.pc = "done", !.out = out,
                                     !.log = @ \o <<Eff("console.error", "")>>
                                               \o LogStatus(ServerErrorMsg(calls[i].kind))])
    /\ status' = SetStatus(ServerErrorMsg(calls[i].kind))
    /\ UNCHANGED <<tracks, timers>>

\* The catch block of a submit flow.
SubmitCatch(i, out) ==
  /\ Complete(i, [calls[i] EXCEPT !.pc = "done", !.out = out,
                                   !.log = @ \o <<Eff("console.error", "")>>
                                             \o LogStatus(ServerErrorMsg(calls[i].kind))])
  /\ status' = SetStatus(ServerErrorMsg(calls[i].kind))
  /\ UNCHANGED <<tracks, timers>>

\* fetch rejects (network failure).
FetchReject(i) ==
  /\ Loaded
  /\ Active(i)
  /\ calls[i].pc = "awaitFetch"
  /\ SubmitCatch(i, "transport")
  /\ UNCHANGED <<dom, streamRef, srcObject, dims, canvas, location, uncaught>>

\* response.json() rejects (the body is not JSON).
JsonReject(i) ==
  /\ Loaded
  /\ Active(i)
  /\ calls[i].pc = "awaitJson"
  /\ SubmitCatch(i, "transport")
  /\ UNCHANGED <<dom, streamRef, srcObject, dims, canvas, location, uncaught>>

\* The failure test without `!response.ok`.
IsFailure_BodyOnly(respOk, data) == ~TruthyOk(data.ok)

\* `!response.ok || !data.ok`, for a body that is an object.
IsFailure(respOk, data) == ~respOk \/ ~TruthyOk(data.ok)

\* The failure text without the server's message.
FailureMsg_FallbackOnly(flow, data) == "[x] " \o Fallback(flow)

\* `"[x] " + (data.error || fallback)`
FailureMsg(flow, data) ==
  "[x] " \o (IF TruthyError(data.error) THEN data.error[1] ELSE Fallback(flow))

\* The timers `setTimeout` adds for a flow whose effects so far are `log`;
\* `stopped` tells whether the flow had called stopCamera by then.
Scheduled(flow, log) ==
  IF RedirectDelays(flow) = {} THEN <<>>
  ELSE <<[flow |-> flow, delay |-> CHOOSE d \in RedirectDelays(flow) : TRUE,
          fired |-> FALSE, stopped |-> Did(log, "stopCamera")]>>

\* A failure branch that also releases the camera.
SubmitFailure_Stops(i, c, data) ==
  /\ Complete(i, [c EXCEPT !.pc = "done", !.out = "domain",
                            !.log = @ \o LogStatus(FailureMsg(c.kind, data))
                                      \o <<Eff("stopCamera", "")>>])
  /\ status' = SetStatus(FailureMsg(c.kind, data))
  /\ tracks' = stopCamera.tracks
  /\ timers' = timers

\* The failure branch of a submit flow: lines 91-94.
SubmitFailure(i, c, data) ==
  /\ Complete(i, [c EXCEPT !.pc = "done", !.out = "domain",
                            !.log = @ \o LogStatus(FailureMsg(c.kind, data))])
  /\ status' = SetStatus(FailureMsg(c.kind, data))
  /\ UNCHANGED <<tracks, timers>>

\* The success branch without its stopCamera() call (lines 97, 140, 173).
SubmitSuccess_NoStop(i, c) ==
  LET flow == c.kind
      done == c.log \o LogStatus(SuccessMsg(flow))
  IN
  /\ Complete(i, [c EXCEPT !.pc = "done", !.out = "success",
                            !.log = done \o (IF RedirectDelays(flow) = {} THEN <<>>
                                             ELSE <<Eff("setTimeout", "/elections")>>)])
  /\ status' = SetStatus(SuccessMsg(flow))
  /\ tracks' = tracks
  /\ timers' = timers \o Scheduled(flow, done)

\* A success branch whose status write is not guarded: with no status element
\* the write throws, the catch block runs and the camera is not released.
SubmitSuccess_NeedsStatus(i, c) ==
  LET flow == c.kind IN
  IF ~hasStatus THEN
    /\ Complete(i, [c EXCEPT !.pc = "done", !.out = "typeerror",
                              !.log = @ \o <<Eff("console.error", "")>>])
    /\ status' = status
    /\ UNCHANGED <<tracks, timers>>
  ELSE
    LET done == c.log \o LogStatus(SuccessMsg(flow)) \o <<Eff("stopCamera", "")>> IN
    /\ Complete(i, [c EXCEPT !.pc = "done", !.out = "success",
                              !.log = done \o (IF RedirectDelays(flow) = {} THEN <<>>
                                               ELSE <<Eff("setTimeout", "/elections")>>)])
    /\ status' = SetStatus(SuccessMsg(flow))
    /\ tracks' = stopCamera.tracks
    /\ timers' = timers \o Scheduled(flow, done)

\* The success branch of a submit flow: status, stopCamera(), setTimeout.
SubmitSuccess(i, c) ==
  LET flow == c.kind IN
  IF stopCamera.threw THEN
    /\ Complete(i, [c EXCEPT !.pc = "done", !.out = "typeerror",
                              !.log = @ \o LogStatus(SuccessMsg(flow))
                                        \o <<Eff("stopCamera", ""), Eff("console.error", "")>>
                                        \o LogStatus(ServerErrorMsg(flow))])
    /\ status' = SetStatus(ServerErrorMsg(flow))
    /\ UNCHANGED <<tracks, timers>>
  ELSE
    LET done == c.log \o LogStatus(SuccessMsg(flow)) \o <<Eff("stopCamera", "")>> IN
    /\ Complete(i, [c EXCEPT !.pc = "done", !.out = "success",
                              !.log = done \o (IF RedirectDelays(flow) = {} THEN <<>>
                                               ELSE <<Eff("setTimeout", "/elections")>>)])
    /\ status' = SetStatus(SuccessMsg(flow))
    /\ tracks' = stopCamera.tracks
    /\ timers' = timers \o Scheduled(flow, done)

\* The code after `await response.json()` outside any try block: reading
\* data.ok of a null body throws out of the flow.
JsonResolve_NoTry(i) ==
  /\ Loaded
  /\ Active(i)
  /\ calls[i].pc = "awaitJson"
  /\ \E data \in Bodies :
       LET c == [calls[i] EXCEPT !.body = <<data>>] IN
       IF data.null THEN
         /\ Complete(i, [c EXCEPT !.pc = "done", !.out = "crash"])
         /\ status' = status
         /\ uncaught' = TRUE
         /\ UNCHANGED <<tracks, timers>>
       ELSE IF IsFailure(calls[i].respOk, data) THEN
         /\ SubmitFailure(i, c, data)
         /\ uncaught' = uncaught
       ELSE
         /\ SubmitSuccess(i, c)
         /\ uncaught' = uncaught
  /\ UNCHANGED <<dom, streamRef, srcObject, dims, canvas, location>>

\* response.json() resolves with the parsed body: lines 89-101.
JsonResolve(i) ==
  /\ Loaded
  /\ Active(i)
  /\ calls[i].pc = "awaitJson"
  /\ \E data \in Bodies :
       LET c == [calls[i] EXCEPT !.body = <<data>>] IN
       IF data.null THEN
         \* data.ok / data.error of null throws a TypeError inside the try
         /\ Complete(i, [c EXCEPT !.pc = "done", !.out = "typeerror",
                                   !.log = @ \o <<Eff("console.error", "")>>
                                             \o LogStatus(ServerErrorMsg(c.kind))])
         /\ status' = SetStatus(ServerErrorMsg(c.kind))
         /\ UNCHANGED <<tracks, timers>>
       ELSE IF IsFailure(calls[i].respOk, data) THEN
         /\ SubmitFailure(i, c, data)
       ELSE
         /\ SubmitSuccess(i, c)
  /\ UNCHANGED <<dom, streamRef, srcObject, dims, canvas, location, uncaught>>

\* A redirect timer fires: window.location.href = "/elections" unloads the page.
TimerFire ==
  /\ Loaded
  /\ \E k \in DOMAIN timers :
       /\ ~timers[k].fired
       /\ timers' = [timers EXCEPT ![k].fired = TRUE]
  /\ location' = "/elections"
  /\ UNCHANGED <<dom, streamRef, tracks, srcObject, dims, canvas, status, calls, ncalls,
                 uncaught>>
  /\ last' = NoCall

----------------------------------------------------------------------------
Next ==
  \/ startCamera
  \/ \E i \in 1..MaxCalls : GumResolve(i)
  \/ \E i \in 1..MaxCalls : GumReject(i)
  \/ \E i \in 1..MaxCalls : PlayResolve(i)
  \/ \E i \in 1..MaxCalls : PlayReject(i)
  \/ DeliverFrame
  \/ CallStopCamera
  \/ captureAndRegister
  \/ captureAndVerifyVote
  \/ captureAndLogin
  \/ \E i \in 1..MaxCalls : FetchResolve(i)
  \/ \E i \in 1..MaxCalls : FetchReject(i)
  \/ \E i \in 1..MaxCalls : JsonReject(i)
  \/ \E i \in 1..MaxCalls : JsonResolve(i)
  \/ TimerFire

Spec == Init /\ [][Next]_vars

\* The host settles a promise some invocation awaits.
Settle ==
  \E i \in 1..MaxCalls :
    \/ GumResolve(i) \/ GumReject(i) \/ PlayResolve(i) \/ PlayReject(i)
    \/ FetchResolve(i) \/ FetchReject(i) \/ JsonReject(i) \/ JsonResolve(i)

\* The script under a host that settles every promise it hands out.
FairSpec == Spec /\ WF_vars(Settle)

----------------------------------------------------------------------------
(* Properties *)

\* The invocation of the latest step, when it is a submit flow.
SubmitActed == last.kind \in Flows
SubmitDone == SubmitActed /\ last.pc = "done"

\* captureImageBase64 has no frame to give: video or canvas missing, or a
\* zero video width or height at the call.
NoFrameAt(c) == ~hasVideo \/ ~hasCanvas \/ c.seen[1] = 0 \/ c.seen[2] = 0

\* C1: a submit flow invoked when captureImageBase64 yields no frame issues no
\* network request, sets the status to the start-camera warning, invokes no
\* stopCamera and schedules no redirect (its only effect is the status text).
C1_NoFrameShortCircuits ==
  [][(SubmitActed' /\ NoFrameAt(last')) =>
       /\ last'.pc = "done"
       /\ last'.out = "precond"
       /\ last'.log = (IF hasStatus THEN <<Eff("status", WarnMsg)>> ELSE <<>>)
       /\ hasStatus => status' = "[!] Please start camera first."
       /\ ~Did(last'.log, "fetch")
       /\ ~Did(last'.log, "stopCamera")
       /\ ~Did(last'.log, "setTimeout")
       /\ UNCHANGED <<calls, streamRef, tracks, srcObject, timers, location>>]_vars

\* C1 witness: a flow was invoked on a page with video and canvas whose video
\* had no frame yet, and short-circuited.
C1_Witness ==
  /\ SubmitActed /\ hasVideo /\ hasCanvas /\ hasStatus
  /\ last.seen = <<0, 0>>
  /\ last.out = "precond"
  /\ status = WarnMsg

\* In a log, every effect b comes after some effect a.
Precedes(log, a, b) ==
  \A k \in DOMAIN log : log[k].e = b => \E j \in 1..(k - 1) : log[j].e = a

RedirectFlows == {"register", "login"}

\* C2: in the register and login flows an ok:true response makes the flow invoke
\* stopCamera before it schedules its redirect to /elections, and no redirect
\* fires that was scheduled by a flow which had not invoked stopCamera first.
C2_StopBeforeRedirect ==
  /\ (SubmitDone /\ last.kind \in RedirectFlows /\ last.out = "success") =>
       /\ Did(last.log, "stopCamera")
       /\ Count(last.log, "setTimeout") = 1
       /\ Precedes(last.log, "stopCamera", "setTimeout")
       /\ timers # <<>>
       /\ timers[Len(timers)].flow = last.kind
       /\ ~timers[Len(timers)].fired
       /\ streamRef # 0 /\ tracks[streamRef] = "ended"
  /\ \A k \in DOMAIN timers : timers[k].stopped /\ timers[k].flow \in RedirectFlows
  /\ location # "page" => \E k \in DOMAIN timers : timers[k].fired /\ timers[k].stopped

\* C2 witness: a redirect scheduled by the register flow has fired.
C2_Witness ==
  /\ location = "/elections"
  /\ \E k \in DOMAIN timers : timers[k].fired /\ timers[k].flow = "register"

\* The error texts a flow can show for a response.
ErrorTexts(flow) ==
  {ServerErrorMsg(flow), "[x] " \o Fallback(flow)}
  \cup {"[x] " \o e[1] : e \in {f \in ErrorField : f # <<>>}}

\* The response of the completed flow: HTTP status 2xx and a body with ok true.
GoodResponse(c) ==
  /\ c.body # <<>>
  /\ c.respOk
  /\ ~c.body[1].null
  /\ c.body[1].ok = <<TRUE>>

\* C3: a submit flow takes its success outcome (success text, stopCamera, and
\* for register/login exactly one redirect scheduled) exactly when the HTTP
\* status is 2xx and the parsed body has ok true; any other parsed response
\* ends in an error text, with no stopCamera and no redirect scheduled.
C3_SuccessOnlyOn2xxAndOk ==
  [][SubmitDone' =>
       LET c == last'
           n == IF c.kind \in RedirectFlows THEN 1 ELSE 0
       IN
       /\ (c.out = "success") = GoodResponse(c)
       /\ GoodResponse(c) =>
            /\ hasStatus => status' = SuccessMsg(c.kind)
            /\ Count(c.log, "stopCamera") = 1
            /\ Count(c.log, "setTimeout") = n
            /\ Len(timers') = Len(timers) + n
            /\ streamRef # 0 /\ tracks' = [tracks EXCEPT ![streamRef] = "ended"]
       /\ ~GoodResponse(c) =>
            /\ ~Did(c.log, "stopCamera")
            /\ ~Did(c.log, "setTimeout")
            /\ UNCHANGED <<timers, tracks>>
            /\ (hasStatus /\ c.body # <<>>) => status' \in ErrorTexts(c.kind)
            /\ c.body # <<>> => c.out \in {"domain", "typeerror"}]_vars

\* C3 witness: a non-2xx response whose body has ok true ended as a failure.
C3_Witness ==
  /\ SubmitDone /\ hasStatus
  /\ last.body # <<>>
  /\ ~last.respOk
  /\ last.body[1].ok = <<TRUE>>
  /\ last.out = "domain"
  /\ streamRef # 0 /\ tracks[streamRef] = "live"

\* The completed flow ended in the failure branch on a body with ok false.
DomainFailure(c) ==
  /\ c.out = "domain"
  /\ c.body[1].ok = <<FALSE>>

\* C4 as stated: on a failure response {ok:false, error:X} the status is
\* "[x] " followed by X exactly, and the flow's fallback when error is absent.
C4_AsStated ==
  (SubmitDone /\ hasStatus /\ DomainFailure(last)) =>
    LET error == last.body[1].error IN
    status = "[x] " \o (IF error = <<>> THEN Fallback(last.kind) ELSE error[1])

\* C4 amended: on a failure response {ok:false, error:X} with X a non-empty
\* string the status is "[x] " followed by X exactly; when error is absent or
\* is the empty string the status is "[x] " followed by the flow's fallback.
C4_ErrorOrFallback ==
  (SubmitDone /\ hasStatus /\ DomainFailure(last)) =>
    LET error == last.body[1].error IN
    status = "[x] " \o (IF error = <<>> \/ error = <<"">>
                        THEN (CASE last.kind = "register" -> "Registration failed."
                                [] last.kind = "vote" -> "Verification failed."
                                [] last.kind = "login" -> "Login failed.")
                        ELSE error[1])

\* C4 witness: the server's own message is shown after a failure response.
C4_Witness ==
  /\ SubmitDone /\ hasStatus /\ DomainFailure(last)
  /\ last.body[1].error = <<"Face not recognized.">>
  /\ status = "[x] Face not recognized."

\* C5: when fetch rejects or the body is not JSON (an HTTP 500 with an
\* unparsable body included) the flow ends with its server-error text and
\* without stopCamera: the stream slot and its tracks are as before.
C5_TransportFailureKeepsStream ==
  [][(SubmitDone' /\ last'.out = "transport") =>
       /\ hasStatus => status' = (CASE last'.kind = "register" ->
                                       "[x] Server error during registration."
                                    [] last'.kind = "vote" ->
                                       "[x] Server error during verification."
                                    [] last'.kind = "login" ->
                                       "[x] Server error during login.")
       /\ ~Did(last'.log, "stopCamera")
       /\ ~Did(last'.log, "setTimeout")
       /\ UNCHANGED <<streamRef, tracks, srcObject, timers>>]_vars

\* C5 witness: a non-2xx response whose body was not JSON, the stream still live.
C5_Witness ==
  /\ SubmitDone /\ hasStatus
  /\ last.out = "transport"
  /\ Did(last.log, "json") /\ ~last.respOk
  /\ status = ServerErrorMsg(last.kind)
  /\ streamRef # 0 /\ tracks[streamRef] = "live"

\* A step of a submit flow: its call, its completion, or its move from the
\* fetch await to the json await.
SubmitStep ==
  \/ SubmitActed'
  \/ /\ Len(calls') = Len(calls)
     /\ \E i \in DOMAIN calls : calls[i].kind \in Flows /\ calls'[i] # calls[i]

FailedOuts == {"precond", "domain", "transport", "typeerror"}

\* C6: a failed submit attempt (precondition, domain or transport failure)
\* invokes no stopCamera, leaves the stream slot, the tracks and the video as
\* they were and schedules no redirect, in every step the flow takes; a stream
\* live before a step of the attempt is live after it.
C6_FailureKeepsCapturing ==
  [][(SubmitStep /\ last'.out # "success") =>
       /\ UNCHANGED <<streamRef, tracks, srcObject, dims, timers, location>>
       /\ last'.out # "" => last'.out \in FailedOuts
       /\ last'.out \in FailedOuts =>
            /\ ~Did(last'.log, "stopCamera")
            /\ ~Did(last'.log, "setTimeout")]_vars

\* C6 witness: after a failed attempt the stream is live and a frame can be
\* captured again.
C6_Witness ==
  /\ SubmitDone
  /\ last.out \in {"domain", "transport", "typeerror"}
  /\ last.respOk
  /\ streamRef # 0 /\ tracks[streamRef] = "live"
  /\ captureImageBase64 # NoImage

\* C7: in the vote-verify flow an ok:true response sets the success text and
\* stops the stream's tracks, and the flow never schedules a navigation.
C7_VoteVerifyNoRedirect ==
  /\ \A k \in DOMAIN timers : timers[k].flow # "vote"
  /\ (SubmitActed /\ last.kind = "vote") => ~Did(last.log, "setTimeout")
  /\ \A i \in DOMAIN calls : calls[i].kind = "vote" => ~Did(calls[i].log, "setTimeout")
  /\ (SubmitDone /\ last.kind = "vote" /\ GoodResponse(last)) =>
       /\ hasStatus => status = "[ok] Face verified successfully!"
       /\ Did(last.log, "stopCamera")
       /\ streamRef # 0 /\ tracks[streamRef] = "ended"

\* C7 witness: vote-verify succeeded on a captured frame, nothing scheduled.
C7_Witness ==
  /\ SubmitDone /\ last.kind = "vote" /\ GoodResponse(last)
  /\ last.image # NoImage
  /\ status = SuccessMsg("vote")
  /\ tracks[streamRef] = "ended"
  /\ timers = <<>>
  /\ location = "page"

\* C8: stopCamera raises no error and touches nothing but the tracks of the
\* stream in the slot; with no stream held it changes nothing; called again
\* right after a stopCamera call it changes nothing the first call left.
C8_StopCameraIdempotent ==
  [][(last'.kind = "stopCamera") =>
       /\ uncaught' = uncaught
       /\ UNCHANGED <<streamRef, srcObject, dims, canvas, status, calls, timers, location>>
       /\ DOMAIN tracks' = DOMAIN tracks
       /\ \A s \in DOMAIN tracks :
            tracks'[s] = IF s = streamRef THEN "ended" ELSE tracks[s]
       /\ streamRef = 0 => tracks' = tracks
       /\ last'.out = "again" => tracks' = tracks]_vars

\* C8 witness: stopCamera has just been called twice in a row on a held stream.
C8_Witness ==
  /\ last.kind = "stopCamera"
  /\ last.out = "again"
  /\ streamRef # 0 /\ tracks[streamRef] = "ended"
  /\ ~uncaught

\* The failures of startCamera that C9 names.
StartFailures == {"unsupported", "gumfail", "playfail"}

\* C9 as stated: a startCamera call that fails (API unavailable, getUserMedia
\* rejected, play rejected) reports a failure status, and neither the stream
\* slot nor the video holds a stream that call acquired.
C9_FailedStartLeavesNoStream ==
  (last.kind = "start" /\ last.out \in StartFailures) =>
    /\ hasStatus => status \in {UnsupportedMsg}
                                \cup {CameraErrorMsg(m) : m \in GumErrors \cup PlayErrors}
    /\ \/ last.stream = 0
       \/ streamRef # last.stream /\ srcObject # last.stream

\* C10 as stated: whenever captureImageBase64 returns an image to a submit
\* flow (which then sends it), a stream is held whose track has not been
\* stopped and which the video shows.
C10_FrameOnlyFromLiveStream ==
  (SubmitActed /\ last.pc = "awaitFetch" /\ last.image # NoImage) =>
    /\ streamRef # 0
    /\ srcObject = streamRef
    /\ tracks[streamRef] = "live"

\* The latest step was the call of a submit flow (not its completion).
SubmitCalled == ncalls' = ncalls + 1 /\ last'.kind \in Flows

\* A startCamera call is suspended at the given await.
StartAwaiting(pc) == \E i \in DOMAIN calls : calls[i].kind = "start" /\ calls[i].pc = pc

\* C11: whenever the video's width or height is 0, captureImageBase64 returns
\* null, whatever the timing of the call (no startCamera yet, a startCamera
\* suspended at getUserMedia or at play, a failed start); the call then issues
\* no request and leaves the stream slot, the tracks, the video and the canvas
\* as they were.
C11_NoSizeNoImage ==
  [][(dims[1] = 0 \/ dims[2] = 0) =>
       /\ captureImageBase64 = NoImage
       /\ SubmitCalled =>
            /\ last'.image = NoImage
            /\ last'.pc = "done"
            /\ ~Did(last'.log, "fetch")
            /\ \A i \in DOMAIN calls' : calls'[i].kind \in Flows => calls'[i].image # NoImage
            /\ UNCHANGED <<streamRef, tracks, srcObject, dims, canvas, calls>>]_vars

\* C11 witness: a flow was invoked on a page with video and canvas while a
\* startCamera call was still awaiting play() and no frame had arrived: it got
\* no image.
C11_Witness ==
  /\ SubmitActed /\ hasVideo /\ hasCanvas
  /\ StartAwaiting("awaitPlay")
  /\ streamRef # 0 /\ tracks[streamRef] = "live"
  /\ dims = <<0, 0>>
  /\ last.image = NoImage
  /\ last.out = "precond"

\* The in-progress text of each flow, as the page shows it.
InProgressText(flow) ==
  CASE flow = "register" -> "Uploading face for registration..."
    [] flow = "vote"     -> "Verifying face..."
    [] flow = "login"    -> "Verifying face for login..."

\* The log of a flow that issued a request starts with the flow's in-progress
\* status, and its request comes after it.
InProgressFirst(c) ==
  Did(c.log, "fetch") =>
    /\ c.log[1] = Eff("status", InProgressText(c.kind))
    /\ Precedes(c.log, "status", "fetch")

\* C12: a submit flow that has a frame sets the status to its in-progress text
\* before it issues its request (the status element being present): the text
\* is shown when the request leaves, and every flow with a request in flight
\* or answered wrote its in-progress status before the request.
C12_InProgressBeforeRequest ==
  hasStatus =>
    /\ (SubmitActed /\ last.pc = "awaitFetch") => status = InProgressText(last.kind)
    /\ SubmitActed => InProgressFirst(last)
    /\ \A i \in DOMAIN calls : calls[i].kind \in Flows =>
         /\ Did(calls[i].log, "fetch")
         /\ InProgressFirst(calls[i])

\* C12 witness: the login flow has just sent its request, its in-progress text
\* showing.
C12_Witness ==
  /\ SubmitActed /\ hasStatus
  /\ last.kind = "login" /\ last.pc = "awaitFetch"
  /\ last.log = <<Eff("status", "Verifying face for login..."),
                  Eff("fetch", "/api/login-face-verify")>>
  /\ status = "Verifying face for login..."

\* C13: the slot holds one stream, the latest acquired; a stream that a later
\* acquisition replaced in the slot while its track was live keeps that track
\* live: no step (stopCamera, a successful submit, a further start) changes
\* the track of a stream other than the one the slot holds after the step.
C13_OneSlotLeaksPrevious ==
  [][/\ streamRef' = Len(tracks')
     /\ streamRef' # streamRef => tracks' = Append(tracks, "live")
     /\ streamRef' = streamRef => DOMAIN tracks' = DOMAIN tracks
     /\ \A s \in DOMAIN tracks : s # streamRef' => tracks'[s] = tracks[s]]_vars

\* C13 witness: after two successful acquisitions with no stop between them a
\* submit flow succeeded and stopped the camera: the second stream's track
\* ended, the first one's is still live.
C13_Witness ==
  /\ SubmitDone /\ last.out = "success"
  /\ Did(last.log, "stopCamera")
  /\ streamRef = 2
  /\ tracks = <<"live", "ended">>

\* The names of the effects of a log other than status writes, in order.
NonStatus(log) ==
  LET Keep(x) == x.e # "status"
      kept == SelectSeq(log, Keep)
  IN [k \in DOMAIN kept |-> kept[k].e]

\* The effects startCamera has up to each of its awaits and outcomes.
StartEffects(c) ==
  LET acquired == <<"getUserMedia", "streamRef", "srcObject", "play">> IN
  CASE c.out = "novideo"     -> {<<"console.error">>}
    [] c.out = "unsupported" -> {<<>>}
    [] c.out = "gumfail"     -> {<<"getUserMedia", "console.error">>}
    [] c.out = "playfail"    -> {acquired \o <<"console.error">>}
    [] c.out = "started"     -> {acquired}
    [] c.pc = "awaitGUM"     -> {<<"getUserMedia">>}
    [] c.pc = "awaitPlay"    -> {acquired}

\* The effects a submit flow has up to each of its awaits and outcomes.
SubmitEffects(c) ==
  CASE c.out = "precond"   -> {<<>>}
    [] c.out = "transport" -> {<<"fetch", "console.error">>,
                               <<"fetch", "json", "console.error">>}
    [] c.out = "domain"    -> {<<"fetch", "json">>}
    [] c.out = "typeerror" -> {<<"fetch", "json", "console.error">>}
    [] c.out = "success"   -> {<<"fetch", "json", "stopCamera">>
                               \o (IF c.kind = "vote" THEN <<>> ELSE <<"setTimeout">>)}
    [] c.pc = "awaitFetch" -> {<<"fetch">>}
    [] c.pc = "awaitJson"  -> {<<"fetch", "json">>}

\* The outcome of a completed invocation, as the page and the host's answers
\* decide it.
OutcomeByAnswers(c) ==
  /\ c.kind = "start" =>
       /\ (c.out = "novideo") = ~hasVideo
       /\ (c.out = "unsupported") = (hasVideo /\ ~apiAvail)
  /\ c.kind \in Flows =>
       /\ (c.out = "precond") = NoFrameAt(c)
       /\ (c.out = "success") = GoodResponse(c)
       /\ (c.out = "typeerror") = (c.body # <<>> /\ c.body[1].null)
       /\ (c.out = "domain") = (c.body # <<>> /\ ~c.body[1].null /\ ~GoodResponse(c))
       /\ (c.out = "transport") = (Did(c.log, "fetch") /\ c.body = <<>>)

\* The effects of an invocation other than status writes are those of the
\* tables above, which do not depend on the status element.
SameEffects(c) ==
  /\ c.kind = "start" => NonStatus(c.log) \in StartEffects(c)
  /\ c.kind \in Flows => NonStatus(c.log) \in SubmitEffects(c)
  /\ c.kind = "stopCamera" => NonStatus(c.log) = <<"stopCamera">>
  /\ ~hasStatus => ~Did(c.log, "status")

\* C14: the status element being absent suppresses the status text and
\* nothing else: with or without it, every invocation has the same sequence
\* of effects other than status writes (getUserMedia, slot and video writes,
\* request, stopCamera, redirect scheduling) for the same page and the same
\* answers of the host, and each answer leads to the same outcome.
C14_StatusAbsenceSuppressesOnlyText ==
  /\ SameEffects(last)
  /\ last.pc = "done" => OutcomeByAnswers(last)
  /\ \A i \in DOMAIN calls : SameEffects(calls[i])
  /\ ~hasStatus => status = ""

\* C14 witness: on a page without the status element the register flow
\* succeeded, released the camera and scheduled its redirect.
C14_Witness ==
  /\ ~hasStatus
  /\ SubmitDone /\ last.kind = "register" /\ last.out = "success"
  /\ NonStatus(last.log) = <<"fetch", "json", "stopCamera", "setTimeout">>
  /\ tracks[streamRef] = "ended"
  /\ timers # <<>>
  /\ status = ""

\* The ways an invocation ends: a return or a handled error, each a normal
\* completion of the async function.
NormalOuts ==
  {"novideo", "unsupported", "gumfail", "playfail", "started",
   "precond", "transport", "domain", "typeerror", "success"}

\* The awaits of startCamera and of the submit flows.
Awaits == {"awaitGUM", "awaitPlay", "awaitFetch", "awaitJson"}

\* C15: no error escapes an invocation of startCamera or of a submit flow,
\* whatever the host answers; an invocation that ended did so normally, by a
\* return or in its catch block; and under a host that settles the awaited
\* calls, every invocation completes while the page is loaded.
C15_NoCrashAndCompletion ==
  /\ [](/\ ~uncaught
        /\ (last.kind \in Flows \cup {"start"} /\ last.pc = "done") => last.out \in NormalOuts
        /\ \A i \in DOMAIN calls : calls[i].pc \in Awaits /\ calls[i].out = "")
  /\ <>[](calls = <<>> \/ ~Loaded)

\* C15 witness: a flow whose response body parsed to null ended in its catch
\* block, nothing escaping.
C15_Witness ==
  /\ SubmitDone
  /\ last.body # <<>> /\ last.body[1].null
  /\ last.out = "typeerror"
  /\ Did(last.log, "console.error")
  /\ ~uncaught

\* The endpoint of each flow, as the page requests it.
OwnEndpoint(flow) ==
  CASE flow = "register" -> "/api/register-face"
    [] flow = "vote"     -> "/api/vote-face-verify"
    [] flow = "login"    -> "/api/login-face-verify"

\* The requests an invocation has issued so far.
Requests(c) == {k \in DOMAIN c.log : c.log[k].e = "fetch"}

\* An invocation of a flow issued one request if it had a frame and none
\* otherwise, to its own endpoint; any other invocation issued none.
OneRequest(c) ==
  IF c.kind \in Flows
  THEN /\ Cardinality(Requests(c)) = (IF c.image = NoImage THEN 0 ELSE 1)
       /\ \A k \in Requests(c) : c.log[k].a = OwnEndpoint(c.kind)
  ELSE Requests(c) = {}

\* C16: an invocation of a submit flow issues at most one request, to the
\* flow's own endpoint, whatever the response or failure: suspended or
\* completed, with any outcome, its effects hold no second request.
C16_OneRequestOwnEndpoint ==
  /\ OneRequest(last)
  /\ \A i \in DOMAIN calls : OneRequest(calls[i])

\* C16 witness: the vote flow's request failed in transit and the flow ended
\* having sent that one request.
C16_Witness ==
  /\ SubmitDone /\ last.kind = "vote"
  /\ last.out = "transport"
  /\ ~Did(last.log, "json")
  /\ Count(last.log, "fetch") = 1
  /\ last.log[IF hasStatus THEN 2 ELSE 1] = Eff("fetch", "/api/vote-face-verify")

\* The flows suspended with a request sent and not yet answered in full.
InFlight == {i \in DOMAIN calls : calls[i].kind \in Flows}

\* C17: no flow excludes another: while the page is loaded each of the three
\* flows can be triggered whatever invocations are suspended, a flow triggered
\* with a frame joins the suspended ones with its own request, and every
\* suspended flow can receive its answer whatever else is in flight.
C17_NoMutualExclusion ==
  /\ (Loaded /\ ncalls < MaxCalls) =>
       /\ ENABLED captureAndRegister
       /\ ENABLED captureAndVerifyVote
       /\ ENABLED captureAndLogin
  /\ (SubmitActed /\ last.pc = "awaitFetch") =>
       /\ calls # <<>>
       /\ calls[Len(calls)] = last
       /\ last.image = captureImageBase64
  /\ \A i \in InFlight :
       /\ (Loaded /\ calls[i].pc = "awaitFetch") => ENABLED FetchResolve(i)
       /\ (Loaded /\ calls[i].pc = "awaitJson") => ENABLED JsonResolve(i)

\* C17 witness: the register flow succeeded, stopped the camera and scheduled
\* its redirect while the login flow, triggered meanwhile, still awaits its
\* response.
C17_Witness ==
  /\ SubmitDone /\ last.kind = "register" /\ last.out = "success"
  /\ \E k \in DOMAIN timers : timers[k].flow = "register" /\ ~timers[k].fired
  /\ \E i \in InFlight :
       /\ calls[i].kind = "login"
       /\ calls[i].image # NoImage
       /\ Did(calls[i].log, "fetch")
  /\ Loaded

\* The latest step was a call of startCamera (not a resumption of one).
StartCalled == ncalls' = ncalls + 1 /\ last'.kind = "start"

\* C18: startCamera on a page without the video element returns at once: it
\* logs a diagnostic, never calls getUserMedia, and leaves the stream slot and
\* the status text as they were; with the video element but without the
\* capture API it returns at once too, never calls getUserMedia, leaves the
\* slot as it was and sets the status to "Camera not supported in this
\* browser." (when the status element exists).
C18_StartCameraHardAbort ==
  [][StartCalled =>
       /\ ~hasVideo =>
            /\ last'.pc = "done" /\ last'.out = "novideo"
            /\ last'.log = <<Eff("console.error", "Video element not found.")>>
            /\ UNCHANGED <<streamRef, tracks, srcObject, status, calls>>
       /\ (hasVideo /\ ~apiAvail) =>
            /\ last'.pc = "done" /\ last'.out = "unsupported"
            /\ ~Did(last'.log, "getUserMedia")
            /\ UNCHANGED <<streamRef, tracks, srcObject, calls>>
            /\ status' = IF hasStatus THEN "Camera not supported in this browser."
                                      ELSE status
       /\ (~hasVideo \/ ~apiAvail) =>
            /\ streamRef' = 0 /\ tracks' = <<>>
            /\ \A i \in DOMAIN calls' : calls'[i].kind # "start"]_vars

\* C18 witness: on a page without the video element, startCamera returned
\* with the status text still the one an earlier flow had written.
C18_Witness ==
  /\ ~hasVideo /\ hasStatus /\ apiAvail
  /\ last.kind = "start" /\ last.out = "novideo"
  /\ status = WarnMsg
  /\ streamRef = 0

\* The latest step resumed a startCamera call whose getUserMedia resolved.
Acquired ==
  \E i \in DOMAIN calls :
    /\ calls[i].pc = "awaitGUM"
    /\ Len(calls') = Len(calls)
    /\ calls'[i].pc = "awaitPlay"

\* C19: the stream slot is null exactly until the first getUserMedia call
\* resolves and non-null ever after; the only step that writes it is the
\* resumption of startCamera after getUserMedia resolved, which stores the new
\* stream: stopCamera, a successful submit and a failed startCamera leave in
\* it the stream it held, stopped or not.
C19_SlotMonotone ==
  [][/\ (streamRef = 0) = (tracks = <<>>)
     /\ streamRef # 0 => streamRef' # 0
     /\ streamRef' # streamRef => Acquired /\ streamRef' = Len(tracks) + 1
     /\ Acquired => streamRef' = Len(tracks) + 1
     /\ last'.kind \in Flows \cup {"start", "stopCamera"} => streamRef' = streamRef]_vars

\* C19 witness: a startCamera whose getUserMedia was rejected has just ended
\* while the slot still holds the stream an earlier stopCamera had stopped.
C19_Witness ==
  /\ last.kind = "start" /\ last.out = "gumfail"
  /\ streamRef # 0
  /\ tracks[streamRef] = "ended"

\* The latest step ran stopCamera: called by the page, or by a flow that
\* succeeded.
Stopped ==
  \/ last'.kind = "stopCamera"
  \/ last'.kind \in Flows /\ last'.out = "success"

\* The startCamera calls of a sequence of invocations that await getUserMedia.
PendingGUM(cs) == {i \in DOMAIN cs : cs[i].pc = "awaitGUM"}

\* C20: a stopCamera that runs (called by the page or by a successful flow)
\* while a startCamera call awaits getUserMedia stops the track of the stream
\* in the slot, or nothing when the slot is null, and leaves the pending call
\* pending; a pending call can always be resumed, and when getUserMedia
\* resolves the new stream is stored in the slot and bound to the video with
\* its track live.
C20_StopDoesNotCancelAcquisition ==
  /\ [][/\ (Stopped /\ PendingGUM(calls) # {}) =>
            /\ Cardinality(PendingGUM(calls')) = Cardinality(PendingGUM(calls))
            /\ UNCHANGED <<streamRef, srcObject>>
            /\ DOMAIN tracks' = DOMAIN tracks
            /\ \A s \in DOMAIN tracks :
                 tracks'[s] = IF s = streamRef THEN "ended" ELSE tracks[s]
        /\ Acquired =>
            /\ tracks' = Append(tracks, "live")
            /\ streamRef' = Len(tracks')
            /\ srcObject' = streamRef'
            /\ tracks'[streamRef'] = "live"]_vars
  /\ [](\A i \in PendingGUM(calls) : Loaded => ENABLED GumResolve(i))

\* C20 witness: a flow succeeded and stopped the camera while a startCamera
\* call, made meanwhile, still awaits getUserMedia.
C20_Witness ==
  /\ SubmitDone /\ last.out = "success"
  /\ Did(last.log, "stopCamera")
  /\ StartAwaiting("awaitGUM")
  /\ streamRef # 0 /\ tracks[streamRef] = "ended"
  /\ Loaded
====
